---- MODULE Spec2Model ----
(***************************************************************************)
(* Model of pyannote/audio/applications/speaker_embedding_keras.py          *)
(* (SpeakerEmbedding: data, _validate_init_default, validate_epoch, apply)  *)
(* and pyannote/audio/labeling/tasks/domain_classification.py.              *)
(*                                                                         *)
(* Each component of the application is a state machine of its own over    *)
(* the module's variables; a specification runs one component and leaves   *)
(* the others idle:                                                        *)
(*   SpecData      SpeakerEmbedding.data, the sequence store build          *)
(*   SpecGrowth    the same build, from any initial capacity               *)
(*   SpecApply     SpeakerEmbedding.apply, the choice of the best epoch      *)
(*   SpecDirectory _params_to_directory followed by _directory_to_params    *)
(*   SpecSampler   _validate_init_default then _validate_epoch_default      *)
(*   SpecBatch     _validate_epoch_default on large validation data         *)
(*   SpecVerification  _validate_epoch_verification                        *)
(*   SpecFiles     SpeakerEmbedding.data, a build from several files        *)
(*   SpecDataLoop  SpeakerEmbedding.data over the subsets of a protocol     *)
(*   SpecApplyLoop SpeakerEmbedding.apply over the subsets of a protocol    *)
(*   SpecValidation  DomainClassification.validation                       *)
(*   SpecIter      Dataset.__iter__ after prepare_data                      *)
(***************************************************************************)
EXTENDS Integers, Sequences, FiniteSets, TLC

VARIABLES
    \* ---- SpeakerEmbedding.data (one subset's store build) ----
    data_pc,      \* "idle" | "loop" (inside `for item in file_generator`) | "done" | "error"
    data_err,     \* name of the exception that ended the build, "" if none
    item,         \* number of files taken from file_generator so far
    seg,          \* number of (segment, y) pairs taken from the current file
    n_sequences,  \* current capacity of the datasets (line 335)
    i,            \* number of sequences (line 349)
    z,            \* speech turn identifier (line 350)
    prev_y,       \* label of the previous speech turn (line 382)
    X_created,    \* whether the X dataset exists (created at the first append)
    X, Y, Z,      \* the three datasets, as sequences (index k+1 models h5 index k)
    attrs,        \* "absent" | "stored": mu and sigma attributes of X
    written,      \* history: the <<x, y, z>> of every completed append, in order
    \* ---- SpeakerEmbedding.apply ----
    validate_txt, \* the validation log: a sequence of <<epoch, value>> lines
    apply_pc,     \* "idle" | "start" | "model_loaded" | "error"
    apply_err,    \* name of the exception that ended apply, "" if none
    best_epoch,   \* line 682; 0 before it is assigned
    minimize,     \* the 'minimize' tag of the metric whose values the log holds
    \* ---- _params_to_directory / _directory_to_params ----
    dir_pc,       \* "idle" | "params" | "encoded" | "decoded"
    params,       \* [duration, min_duration, step, heterogeneous] given to the encoder
    DIRECTORY,    \* the directory name, a sequence of characters
    decoded,      \* what _directory_to_params returned, and the exception it raised
    \* ---- _validate_init_default / _validate_epoch_default ----
    h5_X, h5_y, h5_z, \* the datasets of the store opened for reading
    val_pc,       \* "idle" | "sampling" | "sampled" | "validated" | "error"
    val_err,      \* name of the exception that ended the validation, "" if none
    group_y,      \* class index of every group (`y`, line 500)
    counts,       \* number of groups of every class (line 500)
    speaker,      \* loop index of `for speaker in range(n_speakers)` (line 504)
    acc,          \* the lists XX, X, N, Y (line 503) and, as history, the chosen i
    validation_data, \* what _validate_init_default returned: XX, X, n, y
    metrics,      \* names of the metrics _validate_epoch_default returned
    fX,           \* internal embeddings of the rows of XX (line 663)
    group_fX,     \* per group, the embeddings that are summed (lines 666-668)
    \* ---- _validate_epoch_verification ----
    ver_pc,       \* "idle" | "start" | "enrolments" | "trials" | "done" | "error"
    ver_err,      \* name of the exception that ended the validation, "" if none
    internal,     \* line 551 / 559
    enrolment_models,  \* model_id -> averaged vector (line 569)
    enrolment_khashes, \* hash of (file, enrol_with) -> model_id (line 569)
    trial_models, \* hash of (file, try_with) -> averaged vector (line 586)
    y_true, y_pred, \* line 588
    ver_metrics,  \* names of the metrics returned (line 618)
    applied,      \* history: the calls of sequence_embedding.apply, in order
    used,         \* history: per trial, its file, span and the vector compared
    \* ---- `for subset in [...]` of data (317-332) and of apply (711-733) ----
    protocol,     \* per subset: "unsupported", or the files (by unique identifier) it yields
    loop_pc,      \* "idle" | "subset" | "build" | "files" | "returned" | "error"
    loop_err,     \* name of the exception that left the loop, "" if none
    subset,       \* position in the list of subsets of the subset at hand
    stores,       \* data: the subsets whose store file was created (line 332)
    file_pos,     \* apply: number of files taken from file_generator (line 723)
    processed_uris, \* apply: line 711
    dumped,       \* apply, history: the files given to precomputed.dump, in order
    \* ---- DomainClassification.validation and Dataset.__iter__ ----
    dom_pc,       \* "idle" | "validation" | "returned" | "iter" | "error"
    dom_err,      \* name of the exception raised, "" if none
    val_files,    \* validation, history: the files the loop has gone through
    y_true_file, y_pred_file, \* validation: line 149
    returned,     \* validation: the record returned (lines 160-164)
    task_files,   \* Dataset: task.files after prepare_data
    drawn         \* Dataset: the segment and chunk of the last item yielded

dataVars == <<data_pc, data_err, item, seg, n_sequences, i, z, prev_y,
              X_created, X, Y, Z, attrs, written>>

applyVars == <<validate_txt, apply_pc, apply_err, best_epoch, minimize>>

dirVars == <<dir_pc, params, DIRECTORY, decoded>>

valVars == <<h5_X, h5_y, h5_z, val_pc, val_err, group_y, counts, speaker, acc,
             validation_data, metrics, fX, group_fX>>

verVars == <<ver_pc, ver_err, internal, enrolment_models, enrolment_khashes,
             trial_models, y_true, y_pred, ver_metrics, applied, used>>

loopVars == <<protocol, loop_pc, loop_err, subset, stores, file_pos,
              processed_uris, dumped>>

domVars == <<dom_pc, dom_err, val_files, y_true_file, y_pred_file, returned,
             task_files, drawn>>

vars == <<dataVars, applyVars, dirVars, valVars, verVars, loopVars, domVars>>

----------------------------------------------------------------------------
(* Bounds of the model *)

\* Stand-in for `n_sequences = 1000` (line 335): the smallest capacity from
\* which int(n_sequences * 1.1) behaves as it does from 1000 (it grows), so
\* that growth boundaries are crossed within MaxAppends appends.
InitialCapacity == 10
\* Most sequences one build appends.
MaxAppends == 12
\* Most files the file generator yields.
MaxFiles == 1

\* Speaker labels the labeled-segment generator may produce.
Labels == {"spk_a", "spk_b"}

----------------------------------------------------------------------------
(* SpeakerEmbedding.data: lines 332-421 *)

\* h5py fill values of never written entries.
NoX == <<0, 0>>
NoY == ""
NoZ == 0

\* The feature sequence cropped for the seg-th segment of the item-th file.
Features(f, s) == <<f, s>>

\* int(n_sequences * 1.1), line 386.  1.1 is the double just above 11/10, so
\* the product truncates to floor(11 n / 10) for every n below 10^15.
GrowNone(n) == n
Grow(n) == (n * 11) \div 10

\* Dataset.resize(n, axis=0): keeps the first n entries, fills new ones.
Resize(arr, n, fill) ==
    [k \in 1..n |-> IF k <= Len(arr) THEN arr[k] ELSE fill]

\* X.resize(n); Y.resize(n); Z.resize(n) (lines 387-389 and 407-409).
ResizeAllButZ(x, y, zz, n) ==
    [X |-> Resize(x, n, NoX), Y |-> Resize(y, n, NoY), Z |-> zz]
ResizeAll(x, y, zz, n) ==
    [X |-> Resize(x, n, NoX), Y |-> Resize(y, n, NoY), Z |-> Resize(zz, n, NoZ)]

\* Lines 397-399: a change of label starts a new speech turn.
NextZAlways(zz, y, prev) == zz + 1
NextZ(zz, y, prev) == IF y # prev THEN zz + 1 ELSE zz

\* Lines 407-409: the size the datasets are truncated to after the loops.
FinalSize(n) == n - 1

\* State after `i = 0; z = 0` (lines 338-350): Y and Z exist with the initial
\* capacity, X does not exist yet.
DataStart(capacity) ==
    /\ data_pc = "loop"
    /\ data_err = ""
    /\ item = 0
    /\ seg = 0
    /\ n_sequences = capacity
    /\ i = 0
    /\ z = 0
    /\ prev_y = NoY
    /\ X_created = FALSE
    /\ X = <<>>
    /\ Y = [k \in 1..capacity |-> NoY]
    /\ Z = [k \in 1..capacity |-> NoZ]
    /\ attrs = "absent"
    /\ written = <<>>

\* `for item in file_generator` (lines 352-355): the next file is taken and
\* its features are extracted.  The generator yields at most maxFiles files.
NextItem(maxFiles) ==
    /\ data_pc = "loop"
    /\ item < maxFiles
    /\ item' = item + 1
    /\ seg' = 0
    /\ UNCHANGED <<data_pc, data_err, n_sequences, i, z, prev_y, X_created,
                   X, Y, Z, attrs, written>>

\* One iteration of `for segment, y in generator.from_file(item)` (lines
\* 357-405) with label y.  A build appends at most maxAppends sequences.
AppendSequence(y, maxAppends) ==
    /\ data_pc = "loop"
    /\ item >= 1
    /\ i < maxAppends
    /\ LET x     == Features(item, seg + 1)
           \* lines 368-382
           X0    == IF i = 0 THEN [k \in 1..n_sequences |-> NoX] ELSE X
           prev0 == IF i = 0 THEN y ELSE prev_y
           \* lines 385-389
           full  == (i = n_sequences)
           n1    == IF full THEN Grow(n_sequences) ELSE n_sequences
           R     == IF full THEN ResizeAll(X0, Y, Z, n1)
                            ELSE [X |-> X0, Y |-> Y, Z |-> Z]
           \* lines 397-399
           z1    == NextZ(z, y, prev0)
       IN /\ seg' = seg + 1
          /\ X_created' = TRUE
          /\ n_sequences' = n1
          /\ IF i < Len(R.X)
             THEN \* lines 392-405
                  /\ X' = [R.X EXCEPT ![i + 1] = x]
                  /\ Y' = [R.Y EXCEPT ![i + 1] = y]
                  /\ Z' = [R.Z EXCEPT ![i + 1] = z1]
                  /\ prev_y' = y
                  /\ z' = z1
                  /\ i' = i + 1
                  /\ written' = Append(written, <<x, y, z1>>)
                  /\ UNCHANGED <<data_pc, data_err>>
             ELSE \* X[i] = x (line 392) is out of range: h5py raises
                  /\ X' = R.X
                  /\ Y' = R.Y
                  /\ Z' = R.Z
                  /\ prev_y' = prev0
                  /\ data_pc' = "error"
                  /\ data_err' = "IndexOutOfRange"
                  /\ UNCHANGED <<z, i, written>>
    /\ UNCHANGED <<item, attrs>>

\* Lines 407-421 for a store in which the datasets are not looked at before
\* the statistics are stored.
FinalizeUnchecked ==
    /\ data_pc = "loop"
    /\ item >= 1
    /\ data_pc' = "done"
    /\ attrs' = "stored"
    /\ UNCHANGED <<data_err, X, Y, Z, item, seg, n_sequences, i, z, prev_y,
                   X_created, written>>

\* After the loops (lines 407-421): truncation, then mu and sigma.
Finalize ==
    /\ data_pc = "loop"
    /\ item >= 1
    /\ IF ~X_created
       THEN \* X was never bound: X.resize (line 407) raises
            /\ data_pc' = "error"
            /\ data_err' = "UnboundLocalError"
            /\ UNCHANGED <<X, Y, Z, attrs>>
       ELSE LET R == ResizeAll(X, Y, Z, FinalSize(i))
            IN /\ X' = R.X
               /\ Y' = R.Y
               /\ Z' = R.Z
               /\ IF Len(R.X) = 0
                  THEN \* zip(*()) yields nothing to unpack (line 412)
                       /\ data_pc' = "error"
                       /\ data_err' = "ValueError"
                       /\ attrs' = attrs
                  ELSE \* lines 415-421
                       /\ data_pc' = "done"
                       /\ data_err' = data_err
                       /\ attrs' = "stored"
    /\ UNCHANGED <<item, seg, n_sequences, i, z, prev_y, X_created, written>>

NextData ==
    \/ NextItem(MaxFiles) /\ UNCHANGED <<applyVars, dirVars, valVars, verVars, loopVars, domVars>>
    \/ \E y \in Labels : AppendSequence(y, MaxAppends) /\ UNCHANGED <<applyVars, dirVars, valVars, verVars, loopVars, domVars>>
    \/ Finalize /\ UNCHANGED <<applyVars, dirVars, valVars, verVars, loopVars, domVars>>

\* Most files and most appends of a build that goes through several files.
MaxTurnFiles == 2
MaxTurnAppends == 4

\* The build of a store from up to MaxTurnFiles files.
NextFiles ==
    \/ NextItem(MaxTurnFiles)
          /\ UNCHANGED <<applyVars, dirVars, valVars, verVars, loopVars, domVars>>
    \/ \E y \in Labels : AppendSequence(y, MaxTurnAppends)
          /\ UNCHANGED <<applyVars, dirVars, valVars, verVars, loopVars, domVars>>
    \/ Finalize
          /\ UNCHANGED <<applyVars, dirVars, valVars, verVars, loopVars, domVars>>

\* No build is running.
DataIdle ==
    /\ data_pc = "idle"
    /\ data_err = ""
    /\ item = 0
    /\ seg = 0
    /\ n_sequences = 0
    /\ i = 0
    /\ z = 0
    /\ prev_y = NoY
    /\ X_created = FALSE
    /\ X = <<>>
    /\ Y = <<>>
    /\ Z = <<>>
    /\ attrs = "absent"
    /\ written = <<>>

----------------------------------------------------------------------------
(* SpeakerEmbedding.apply: lines 679-683, the best performing epoch *)

\* Most lines of the validation log.
MaxLogLen == 4
\* Epochs and values (in tenths) a line of the validation log may hold.
Epochs == {1, 2, 3}
Values == {1, 2, 3, 5}

\* The keys of SortedDict(rows): the epochs of the rows.
Keys(rows) == {rows[k][1] : k \in 1..Len(rows)}

\* SortedDict(np.loadtxt(fp)), line 681: a dict built from the rows in file
\* order, so that a later row of an epoch replaces an earlier one.
SortedDict(rows) ==
    [e \in Keys(rows) |->
        LET last == CHOOSE k \in 1..Len(rows) :
                        /\ rows[k][1] = e
                        /\ \A j \in 1..Len(rows) : rows[j][1] = e => j <= k
        IN rows[last][2]]

\* eers.iloc[np.argmin(eers.values())], line 682: values are listed in key
\* order and argmin returns the first index of the minimum.
ArgMaxKey(eers) ==
    CHOOSE e \in DOMAIN eers :
        /\ \A f \in DOMAIN eers : eers[e] >= eers[f]
        /\ \A f \in DOMAIN eers : eers[f] = eers[e] => e <= f
ArgMinKey(eers) ==
    CHOOSE e \in DOMAIN eers :
        /\ \A f \in DOMAIN eers : eers[e] <= eers[f]
        /\ \A f \in DOMAIN eers : eers[f] = eers[e] => e <= f

\* No apply is running.
ApplyIdle ==
    /\ validate_txt = <<>>
    /\ apply_pc = "idle"
    /\ apply_err = ""
    /\ best_epoch = 0
    /\ minimize = TRUE

\* The validation logs of up to MaxLogLen lines `epoch value`.
Logs == UNION {[1..n -> Epochs \X Values] : n \in 0..MaxLogLen}

\* apply is about to open the validation log (lines 679-680).  The log holds
\* the values of a metric that is to be minimized (the equal error rates of
\* lines 618, 643 and 673) or maximized (the accuracy of
\* DomainClassification.validation); the log itself does not say which.
ApplyStart ==
    /\ validate_txt \in Logs
    /\ apply_pc = "start"
    /\ apply_err = ""
    /\ best_epoch = 0
    /\ minimize \in BOOLEAN

\* Lines 680-683 without the failures of lines 681-682.
LoadBestModelUnchecked ==
    /\ apply_pc = "start"
    /\ best_epoch' = IF Len(validate_txt) = 0 THEN 1
                     ELSE ArgMinKey(SortedDict(validate_txt))
    /\ apply_pc' = "model_loaded"
    /\ UNCHANGED <<validate_txt, apply_err, minimize>>

\* Lines 680-683.
LoadBestModel ==
    /\ apply_pc = "start"
    /\ CASE Len(validate_txt) = 0 ->
              \* loadtxt returns an empty array, the dict is empty and
              \* np.argmin of an empty sequence raises
              /\ apply_pc' = "error"
              /\ apply_err' = "ValueError"
              /\ UNCHANGED best_epoch
         [] Len(validate_txt) = 1 ->
              \* loadtxt returns a 1-d array of two numbers, which are no
              \* (key, value) pairs for the dict
              /\ apply_pc' = "error"
              /\ apply_err' = "TypeError"
              /\ UNCHANGED best_epoch
         [] OTHER ->
              /\ best_epoch' = ArgMinKey(SortedDict(validate_txt))
              /\ apply_pc' = "model_loaded"
              /\ UNCHANGED apply_err
    /\ UNCHANGED <<validate_txt, minimize>>

NextApply ==
    LoadBestModel /\ UNCHANGED <<dataVars, dirVars, valVars, verVars, loopVars, domVars>>

----------------------------------------------------------------------------
(* _params_to_directory and _directory_to_params: lines 257-294 *)

\* A non-negative number m x 10^e with m not a multiple of 10 (0 is [0, 0]):
\* the float whose shortest decimal writing this is.
\* Python's None where a number is optional, and a float() that raised.
None == [m |-> -1, e |-> 0]
ValueError == [m |-> -2, e |-> 0]

RECURSIVE Normalize(_, _)
Normalize(m, e) ==
    IF m = 0 THEN [m |-> 0, e |-> 0]
    ELSE IF m % 10 = 0 THEN Normalize(m \div 10, e + 1)
    ELSE [m |-> m, e |-> e]

RECURSIVE Pow10(_)
Pow10(k) == IF k = 0 THEN 1 ELSE 10 * Pow10(k - 1)

\* The decimal digits of n >= 0, most significant first.
RECURSIVE DigitsOf(_)
DigitsOf(n) == IF n < 10 THEN <<n>> ELSE Append(DigitsOf(n \div 10), n % 10)

DigitChars == <<"0", "1", "2", "3", "4", "5", "6", "7", "8", "9">>
Chars(ds) == [k \in 1..Len(ds) |-> DigitChars[ds[k] + 1]]
Zeros(n) == [k \in 1..n |-> "0"]

\* Significant digits the 'g' presentation type keeps by default.
Precision == 6

\* v rounded to Precision significant digits (half to even).
RoundG(v) ==
    LET n == Len(DigitsOf(v.m))
    IN IF n <= Precision THEN v
       ELSE LET p    == Pow10(n - Precision)
                q    == v.m \div p
                r    == v.m % p
                up   == (2 * r > p) \/ (2 * r = p /\ q % 2 = 1)
            IN Normalize(IF up THEN q + 1 ELSE q, v.e + n - Precision)

\* '{:g}'.format(v): positional notation when the decimal exponent ex of the
\* rounded value has -4 <= ex < Precision, scientific notation otherwise;
\* trailing zeros are removed.
FormatG(v) ==
    LET r  == RoundG(v)
        ds == DigitsOf(r.m)
        n  == Len(ds)
        ex  == n - 1 + r.e
    IN IF r.m = 0 THEN <<"0">>
       ELSE IF ex >= -4 /\ ex < Precision
            THEN IF r.e >= 0 THEN Chars(ds) \o Zeros(r.e)
                 ELSE IF ex >= 0
                      THEN Chars(SubSeq(ds, 1, ex + 1)) \o <<".">>
                               \o Chars(SubSeq(ds, ex + 2, n))
                      ELSE <<"0", ".">> \o Zeros(-ex - 1) \o Chars(ds)
            ELSE Chars(<<ds[1]>>)
                     \o (IF n > 1 THEN <<".">> \o Chars(SubSeq(ds, 2, n)) ELSE <<>>)
                     \o <<"e", IF ex < 0 THEN "-" ELSE "+">>
                     \o (LET a == IF ex < 0 THEN -ex ELSE ex
                         IN IF a < 10 THEN <<"0">> \o Chars(DigitsOf(a))
                                      ELSE Chars(DigitsOf(a)))

\* Lines 263-277.
ParamsToDirectory(duration, min_duration, step, heterogeneous) ==
    (IF min_duration = None THEN <<>> ELSE FormatG(min_duration) \o <<"-">>)
        \o FormatG(duration)
        \o (IF step = None THEN <<>> ELSE <<"+">> \o FormatG(step))
        \o (IF heterogeneous THEN <<"x">> ELSE <<>>)

\* str.split(c): the pieces of s between the occurrences of c.
RECURSIVE Split(_, _)
Split(s, c) ==
    IF \A k \in 1..Len(s) : s[k] # c THEN <<s>>
    ELSE LET k == CHOOSE j \in 1..Len(s) :
                      s[j] = c /\ \A h \in 1..(j - 1) : s[h] # c
         IN <<SubSeq(s, 1, k - 1)>> \o Split(SubSeq(s, k + 1, Len(s)), c)

IsDigit(ch) == \E d \in 1..10 : DigitChars[d] = ch
DigitValue(ch) == (CHOOSE d \in 1..10 : DigitChars[d] = ch) - 1

\* The number a sequence of digit characters writes.
RECURSIVE NatOf(_)
NatOf(s) ==
    IF Len(s) = 0 THEN 0
    ELSE 10 * NatOf(SubSeq(s, 1, Len(s) - 1)) + DigitValue(s[Len(s)])

\* float(s) for s made of digits, '.', 'e', '+' and '-': the number, or
\* ValueError when s is no float literal.
ParseFloat(s) ==
    LET parts  == Split(s, "e")
        mant   == parts[1]
        mparts == Split(mant, ".")
        mdigs  == IF Len(mparts) = 2 THEN mparts[1] \o mparts[2] ELSE mparts[1]
        frac   == IF Len(mparts) = 2 THEN Len(mparts[2]) ELSE 0
        mantOk == /\ Len(mparts) <= 2
                  /\ Len(mdigs) >= 1
                  /\ \A k \in 1..Len(mdigs) : IsDigit(mdigs[k])
        expo   == IF Len(parts) = 2 THEN parts[2] ELSE <<>>
        signed == Len(expo) >= 1 /\ expo[1] \in {"+", "-"}
        edigs  == IF signed THEN SubSeq(expo, 2, Len(expo)) ELSE expo
        expoOk == \/ Len(parts) = 1
                  \/ /\ Len(parts) = 2
                     /\ Len(edigs) >= 1
                     /\ \A k \in 1..Len(edigs) : IsDigit(edigs[k])
        ev     == IF Len(parts) = 2 /\ expoOk
                  THEN (IF signed /\ expo[1] = "-" THEN -NatOf(edigs) ELSE NatOf(edigs))
                  ELSE 0
    IN IF mantOk /\ expoOk THEN Normalize(NatOf(mdigs), ev - frac)
       ELSE ValueError

\* Lines 284-294.  A float() that raises ends the call with its ValueError.
DirectoryToParams(directory) ==
    LET heterogeneous == directory[Len(directory)] = "x"
        dir1     == IF heterogeneous THEN SubSeq(directory, 1, Len(directory) - 1)
                                     ELSE directory
        tokens   == Split(dir1, "+")
        step     == IF Len(tokens) = 2 THEN ParseFloat(tokens[2]) ELSE None
        tokens2  == Split(tokens[1], "-")
        min_duration == IF Len(tokens2) = 2 THEN ParseFloat(tokens2[1]) ELSE None
        duration == IF Len(tokens2) = 1 THEN ParseFloat(tokens2[1])
                                        ELSE ParseFloat(tokens2[2])
    IN IF ValueError \in {step, min_duration, duration}
       THEN [raised |-> "ValueError", duration |-> None, min_duration |-> None,
             step |-> None, heterogeneous |-> FALSE]
       ELSE [raised |-> "", duration |-> duration, min_duration |-> min_duration,
             step |-> step, heterogeneous |-> heterogeneous]

\* Durations, in seconds: 5, 3.2, 0.8, 1, 1.2345678, 1000000 and 0.00001.
Numbers ==
    {Normalize(5, 0), Normalize(32, -1), Normalize(8, -1), Normalize(1, 0),
     Normalize(12345678, -7), Normalize(1, 6), Normalize(1, -5)}

NoParams == [duration |-> None, min_duration |-> None, step |-> None,
             heterogeneous |-> FALSE]
NotDecoded == [raised |-> "", duration |-> None, min_duration |-> None,
               step |-> None, heterogeneous |-> FALSE]

DirIdle ==
    /\ dir_pc = "idle"
    /\ params = NoParams
    /\ DIRECTORY = <<>>
    /\ decoded = NotDecoded

\* A caller holds the parameters of a store.
DirStart ==
    /\ dir_pc = "params"
    /\ \E d \in Numbers, m \in Numbers \cup {None}, st \in Numbers \cup {None},
          h \in BOOLEAN :
          params = [duration |-> d, min_duration |-> m, step |-> st,
                    heterogeneous |-> h]
    /\ DIRECTORY = <<>>
    /\ decoded = NotDecoded

\* data() names the directory of the store (lines 306-311).
EncodeDirectory ==
    /\ dir_pc = "params"
    /\ DIRECTORY' = ParamsToDirectory(params.duration, params.min_duration,
                                      params.step, params.heterogeneous)
    /\ dir_pc' = "encoded"
    /\ UNCHANGED <<params, decoded>>

\* validate and apply recover the parameters from the name (lines 541-542
\* and 686-687).
DecodeDirectory ==
    /\ dir_pc = "encoded"
    /\ decoded' = DirectoryToParams(DIRECTORY)
    /\ dir_pc' = "decoded"
    /\ UNCHANGED <<params, DIRECTORY>>

NextDirectory ==
    \/ EncodeDirectory /\ UNCHANGED <<dataVars, applyVars, valVars, verVars, loopVars, domVars>>
    \/ DecodeDirectory /\ UNCHANGED <<dataVars, applyVars, valVars, verVars, loopVars, domVars>>

----------------------------------------------------------------------------
(* _validate_init_default: lines 475-519 *)

\* Most speech turns (groups) of a store that is sampled.
MaxGroups == 22
\* Most sequences of one speech turn of such a store.
MaxGroupSize == 2
\* Largest selection whose every order is enumerated.
MaxPermuted == 2

\* Labels in the order np.unique sorts them.
LabelOrder == <<"spk_a", "spk_b", "spk_c">>
Rank(l) == CHOOSE r \in 1..Len(LabelOrder) : LabelOrder[r] = l

\* Labels of consecutive speech turns repeat one of these cycles; neighbours
\* differ, as the speech turns of a store built by data() do.
Cycles ==
    {<<"spk_a", "spk_b">>, <<"spk_a", "spk_b", "spk_a", "spk_c">>,
     <<"spk_c", "spk_b", "spk_a">>, <<"spk_b", "spk_c", "spk_b", "spk_a">>}

\* The store data() writes for g speech turns: turn t (from 0) has the label
\* cycle[t mod len] and 1 + (t mod sp) sequences, and z = t.
RECURSIVE StoreRows(_, _, _)
StoreRows(cycle, g, sp) ==
    IF g = 0 THEN <<>>
    ELSE LET before == StoreRows(cycle, g - 1, sp)
         IN before
              \o [k \in 1..(1 + ((g - 1) % sp)) |->
                     [x |-> Len(before) + k,
                      y |-> cycle[((g - 1) % Len(cycle)) + 1],
                      z |-> g - 1]]

\* One dataset of the store: the given field of its rows, in order.
RECURSIVE Column(_, _)
Column(rows, field) ==
    IF Len(rows) = 0 THEN <<>>
    ELSE <<rows[1][field]>> \o Column(Tail(rows), field)

\* The ascending sequence of a finite set of integers.
RECURSIVE SortedSeq(_)
SortedSeq(S) ==
    IF S = {} THEN <<>>
    ELSE LET lo == CHOOSE a \in S : \A b \in S : a <= b
         IN <<lo>> \o SortedSeq(S \ {lo})

Reverse(q) == [k \in 1..Len(q) |-> q[Len(q) + 1 - k]]

\* df.groupby('z') (line 493): the keys in ascending order, and for a key the
\* index (row numbers from 0, ascending) of its group.
GroupKeys(zs) == SortedSeq({zs[k] : k \in 1..Len(zs)})
GetGroup(zs, key) == SortedSeq({k - 1 : k \in {j \in 1..Len(zs) : zs[j] = key}})

\* Line 496: the label of the first member of each group, in key order.
YGroups(ys, zs) ==
    LET keys == GroupKeys(zs)
    IN [p \in 1..Len(keys) |-> ys[GetGroup(zs, keys[p])[1] + 1]]

\* np.unique(y_groups, return_inverse=True, return_counts=True), line 500.
Unique(yg) ==
    LET ranks == SortedSeq({Rank(yg[p]) : p \in 1..Len(yg)})
    IN [u \in 1..Len(ranks) |-> LabelOrder[ranks[u]]]
Inverse(yg) ==
    LET unique == Unique(yg)
    IN [p \in 1..Len(yg) |->
           (CHOOSE u \in 1..Len(unique) : unique[u] = yg[p]) - 1]
Counts(yg) ==
    LET unique == Unique(yg)
    IN [u \in 1..Len(unique) |->
           Cardinality({p \in 1..Len(yg) : yg[p] = unique[u]})]

\* size=min(10, counts[speaker]), line 506.
SampleSizeUncapped(count) == count
SampleSize(count) == IF count < 10 THEN count ELSE 10

\* Every order of the elements of T.
RECURSIVE Orders(_)
Orders(T) ==
    IF T = {} THEN {<<>>}
    ELSE UNION {{<<a>> \o q : q \in Orders(T \ {a})} : a \in T}

\* The subsets of S that have k elements.
RECURSIVE KSubsets(_, _)
KSubsets(S, k) ==
    IF k = 0 THEN {{}}
    ELSE IF Cardinality(S) < k THEN {}
    ELSE IF Cardinality(S) = k THEN {S}
    ELSE LET a == CHOOSE b \in S : TRUE
         IN {T \cup {a} : T \in KSubsets(S \ {a}, k - 1)}
                \cup KSubsets(S \ {a}, k)

\* np.random.choice(S, size=k, replace=False), line 505: any k elements of S
\* may come out.  Every order of them is enumerated up to MaxPermuted
\* elements, the ascending and the descending order beyond.
Choice(S, k) ==
    UNION {IF k <= MaxPermuted THEN Orders(T)
                               ELSE {SortedSeq(T), Reverse(SortedSeq(T))}
           : T \in KSubsets(S, k)}

\* Lines 509-514 for the positions of I, in order: the lists after them.
RECURSIVE Collect(_, _, _, _, _)
Collect(lists, I, hX, zs, y) ==
    IF Len(I) = 0 THEN lists
    ELSE LET g        == I[1]
             selector == GetGroup(zs, g)
             x        == [k \in 1..Len(selector) |-> hX[selector[k] + 1]]
         IN Collect([XX |-> lists.XX \o x,
                     X  |-> Append(lists.X, x[(Len(x) \div 2) + 1]),
                     N  |-> Append(lists.N, Len(x)),
                     Y  |-> Append(lists.Y, y[g + 1]),
                     I  |-> Append(lists.I, g)],
                    Tail(I), hX, zs, y)

NoLists == [XX |-> <<>>, X |-> <<>>, N |-> <<>>, Y |-> <<>>, I |-> <<>>]
NoData == [XX |-> <<>>, X |-> <<>>, n |-> <<>>, y |-> <<>>]

ValIdle ==
    /\ h5_X = <<>> /\ h5_y = <<>> /\ h5_z = <<>>
    /\ val_pc = "idle"
    /\ val_err = ""
    /\ group_y = <<>>
    /\ counts = <<>>
    /\ speaker = 0
    /\ acc = NoLists
    /\ validation_data = NoData
    /\ metrics = {}
    /\ fX = <<>>
    /\ group_fX = <<>>

\* The store is open and the lists are empty (lines 485-503).
SamplerStart ==
    /\ \E cycle \in Cycles, g \in 1..MaxGroups, sp \in 1..MaxGroupSize :
          /\ h5_X = Column(StoreRows(cycle, g, sp), "x")
          /\ h5_y = Column(StoreRows(cycle, g, sp), "y")
          /\ h5_z = Column(StoreRows(cycle, g, sp), "z")
    /\ val_pc = "sampling"
    /\ val_err = ""
    /\ group_y = Inverse(YGroups(h5_y, h5_z))
    /\ counts = Counts(YGroups(h5_y, h5_z))
    /\ speaker = 0
    /\ acc = NoLists
    /\ validation_data = NoData
    /\ metrics = {}
    /\ fX = <<>>
    /\ group_fX = <<>>

\* One iteration of `for speaker in range(n_speakers)` (lines 504-514).
SampleSpeaker ==
    /\ val_pc = "sampling"
    /\ speaker < Len(counts)
    /\ \E I \in Choice({p - 1 : p \in {q \in 1..Len(group_y) :
                                           group_y[q] = speaker}},
                       SampleSize(counts[speaker + 1])) :
          IF \A k \in 1..Len(I) : \E r \in 1..Len(h5_z) : h5_z[r] = I[k]
          THEN /\ acc' = Collect(acc, I, h5_X, h5_z, group_y)
               /\ speaker' = speaker + 1
               /\ UNCHANGED <<val_pc, val_err>>
          ELSE \* z_groups.get_group(i) of a key that is no group
               /\ val_pc' = "error"
               /\ val_err' = "KeyError"
               /\ UNCHANGED <<acc, speaker>>
    /\ UNCHANGED <<h5_X, h5_y, h5_z, group_y, counts, validation_data, metrics,
                   fX, group_fX>>

\* Lines 516-519, after the last speaker.
ReturnValidationData ==
    /\ val_pc = "sampling"
    /\ speaker = Len(counts)
    /\ validation_data' = [XX |-> acc.XX, X |-> acc.X, n |-> acc.N, y |-> acc.Y]
    /\ val_pc' = "sampled"
    /\ UNCHANGED <<h5_X, h5_y, h5_z, val_err, group_y, counts, speaker, acc,
                   metrics, fX, group_fX>>

----------------------------------------------------------------------------
(* _validate_epoch_default: lines 624-675 *)

\* Line 629.
batch_size == 2048
\* Most rows of XX when the validation data are given as such.
MaxRows == 2050

\* np.arange(0, n, step).
RECURSIVE ARange(_, _, _)
ARange(from, n, step) ==
    IF from >= n THEN <<>> ELSE <<from>> \o ARange(from + step, n, step)

\* Lines 660-662: the boundaries of the batches.
Batches(n, bs) ==
    IF n % bs # 0 THEN Append(ARange(0, n, bs), n) ELSE ARange(0, n, bs)

\* pyannote.core.util.pairwise: (q0, q1), (q1, q2), ...
Pairwise(q) == [k \in 1..(Len(q) - 1) |-> <<q[k], q[k + 1]>>]

\* s[from:to] of Python, from <= to: the bounds are clamped to the length.
Slice(q, from, to) ==
    LET hi == IF to < Len(q) THEN to ELSE Len(q)
    IN IF from >= hi THEN <<>> ELSE SubSeq(q, from + 1, hi)

\* embed(XX) (lines 651-655): the internal embedding of every row given.
Embedding(x) == <<"internal", x>>
Embed(rows) == [k \in 1..Len(rows) |-> Embedding(rows[k])]

\* np.vstack(embed(XX[i:j]) for i, j in pairwise(batches)), line 663.
RECURSIVE VStackBatches(_, _)
VStackBatches(rows, pairs) ==
    IF Len(pairs) = 0 THEN <<>>
    ELSE Embed(Slice(rows, pairs[1][1], pairs[1][2]))
           \o VStackBatches(rows, Tail(pairs))

\* np.hstack([[0], np.cumsum(n)]), line 666.
RECURSIVE CumSum(_)
CumSum(n) ==
    IF Len(n) = 0 THEN <<>>
    ELSE LET before == CumSum(SubSeq(n, 1, Len(n) - 1))
         IN Append(before, (IF Len(before) = 0 THEN 0 ELSE before[Len(before)])
                              + n[Len(n)])
Indices(n) == <<0>> \o CumSum(n)

\* The validation data of groups of the given sizes, rows numbered from 1.
DataOfSizes(sizes) ==
    LET idx == Indices(sizes)
    IN [XX |-> [r \in 1..idx[Len(idx)] |-> r],
        X  |-> [g \in 1..Len(sizes) |-> idx[g] + (sizes[g] \div 2) + 1],
        n  |-> sizes,
        y  |-> [g \in 1..Len(sizes) |-> (g - 1) % 2]]

\* validate_epoch is given validation data of up to MaxRows rows.
BatchStart ==
    /\ h5_X = <<>> /\ h5_y = <<>> /\ h5_z = <<>>
    /\ val_pc = "sampled"
    /\ val_err = ""
    /\ group_y = <<>>
    /\ counts = <<>>
    /\ speaker = 0
    /\ acc = NoLists
    /\ \E rows \in 1..MaxRows :
          \E sizes \in {<<rows>>} \cup
                        {<<a, rows - a>> : a \in {1, rows \div 2} \ {0, rows}} :
              validation_data = DataOfSizes(sizes)
    /\ metrics = {}
    /\ fX = <<>>
    /\ group_fX = <<>>

\* _validate_epoch_default for a model with or without a layer 'internal'.
ValidateEpochDefault(has_internal) ==
    /\ val_pc = "sampled"
    /\ IF ~has_internal
       THEN \* lines 634-648
            /\ metrics' = {"EER.1seq"}
            /\ val_pc' = "validated"
            /\ UNCHANGED <<val_err, fX, group_fX>>
       ELSE LET XX      == validation_data.XX
                batches == Batches(Len(XX), batch_size)
                pairs   == Pairwise(batches)
                stacked == VStackBatches(XX, pairs)
                indices == Indices(validation_data.n)
            IN IF Len(pairs) = 0
               THEN \* np.vstack of no array raises (line 663)
                    /\ val_pc' = "error"
                    /\ val_err' = "ValueError"
                    /\ UNCHANGED <<metrics, fX, group_fX>>
               ELSE \* lines 663-675
                    /\ fX' = stacked
                    /\ group_fX' = [g \in 1..(Len(indices) - 1) |->
                                       Slice(stacked, indices[g], indices[g + 1])]
                    /\ metrics' = {"EER.1seq", "EER.Xseq"}
                    /\ val_pc' = "validated"
                    /\ UNCHANGED val_err
    /\ UNCHANGED <<h5_X, h5_y, h5_z, group_y, counts, speaker, acc,
                   validation_data>>

NextSampler ==
    \/ SampleSpeaker /\ UNCHANGED <<dataVars, applyVars, dirVars, verVars, loopVars, domVars>>
    \/ ReturnValidationData /\ UNCHANGED <<dataVars, applyVars, dirVars, verVars, loopVars, domVars>>
    \/ \E b \in BOOLEAN : ValidateEpochDefault(b)
                               /\ UNCHANGED <<dataVars, applyVars, dirVars, verVars, loopVars, domVars>>

NextBatch ==
    \E b \in BOOLEAN : ValidateEpochDefault(b)
                           /\ UNCHANGED <<dataVars, applyVars, dirVars, verVars, loopVars, domVars>>

----------------------------------------------------------------------------
(* _validate_epoch_verification: lines 533-621 *)

\* Most enrolments and most trials of the subset.
MaxEnrolments == 2
MaxTrials == 2

\* Model identifiers, files (by unique identifier) and time spans of the
\* protocol.
ModelIds == {"m1", "m2"}
Uris == {"f1", "f2"}
Spans == {"s1", "s2"}

\* trial['reference']: whether the file is of the model's speaker.  File fk
\* is of the speaker of model mk.
Reference(model_id, uri) ==
    (model_id = "m1" /\ uri = "f1") \/ (model_id = "m2" /\ uri = "f2")

\* hash((get_unique_identifier(file), tuple(span))), lines 582 and 592:
\* equal for equal (file, span); distinct pairs are taken not to collide.
Hash(uri, span) == <<uri, span>>

\* np.mean(embedding.crop(span, ...), axis=0, keepdims=True), lines 573-576
\* and 604-607: the average over span of the embedding of the file.
MeanVector(uri, span) == <<"mean", uri, span>>

\* d[k] = v of a Python dict.
Put(d, k, v) == [a \in DOMAIN d \cup {k} |-> IF a = k THEN v ELSE d[a]]
EmptyDict == [a \in {} |-> 0]

\* trial_models[h] = model, line 609.
CacheTrialModelNot(cache, h, model) == cache
CacheTrialModel(cache, h, model) == Put(cache, h, model)

VerIdle ==
    /\ ver_pc = "idle"
    /\ ver_err = ""
    /\ internal = FALSE
    /\ enrolment_models = EmptyDict
    /\ enrolment_khashes = EmptyDict
    /\ trial_models = EmptyDict
    /\ y_true = <<>>
    /\ y_pred = <<>>
    /\ ver_metrics = {}
    /\ applied = <<>>
    /\ used = <<>>

\* _validate_epoch_verification is called.
VerificationStart ==
    /\ ver_pc = "start"
    /\ ver_err = ""
    /\ internal = FALSE
    /\ enrolment_models = EmptyDict
    /\ enrolment_khashes = EmptyDict
    /\ trial_models = EmptyDict
    /\ y_true = <<>>
    /\ y_pred = <<>>
    /\ ver_metrics = {}
    /\ applied = <<>>
    /\ used = <<>>

\* Lines 538-570: the internal representation is used when the model has one
\* (SequenceEmbedding raises ValueError otherwise), else the final one.
InitEmbedding(has_internal) ==
    /\ ver_pc = "start"
    /\ internal' = has_internal
    /\ ver_pc' = "enrolments"
    /\ UNCHANGED <<ver_err, enrolment_models, enrolment_khashes, trial_models,
                   y_true, y_pred, ver_metrics, applied, used>>

\* One iteration of the enrolment loop (lines 571-584).
Enrol(model_id, uri, enrol_with, maxEnrolments) ==
    /\ ver_pc = "enrolments"
    /\ Len(applied) < maxEnrolments
    /\ applied' = Append(applied, [phase |-> "enrolment", uri |-> uri,
                                   span |-> enrol_with])
    /\ enrolment_models' = Put(enrolment_models, model_id,
                               MeanVector(uri, enrol_with))
    /\ enrolment_khashes' = Put(enrolment_khashes, Hash(uri, enrol_with), model_id)
    /\ UNCHANGED <<ver_pc, ver_err, internal, trial_models, y_true, y_pred,
                   ver_metrics, used>>

\* Lines 586-588: the enrolments are exhausted.
StartTrials ==
    /\ ver_pc = "enrolments"
    /\ ver_pc' = "trials"
    /\ trial_models' = EmptyDict
    /\ y_true' = <<>>
    /\ y_pred' = <<>>
    /\ UNCHANGED <<ver_err, internal, enrolment_models, enrolment_khashes,
                   ver_metrics, applied, used>>

\* One iteration of the trial loop (lines 589-614).
Trial(model_id, uri, try_with, maxTrials) ==
    /\ ver_pc = "trials"
    /\ Len(y_pred) < maxTrials
    /\ LET h      == Hash(uri, try_with)
           reuseE == h \in DOMAIN enrolment_khashes
           reuseT == ~reuseE /\ h \in DOMAIN trial_models
           fresh  == ~reuseE /\ ~reuseT
           model  == IF reuseE THEN enrolment_models[enrolment_khashes[h]]
                     ELSE IF reuseT THEN trial_models[h]
                     ELSE MeanVector(uri, try_with)
       IN /\ applied' = IF fresh
                        THEN Append(applied, [phase |-> "trial", uri |-> uri,
                                              span |-> try_with])
                        ELSE applied
          /\ trial_models' = IF fresh THEN CacheTrialModel(trial_models, h, model)
                                      ELSE trial_models
          /\ used' = Append(used, [uri |-> uri, span |-> try_with, model |-> model])
          /\ IF model_id \in DOMAIN enrolment_models
             THEN \* lines 611-614
                  /\ y_pred' = Append(y_pred, <<enrolment_models[model_id], model>>)
                  /\ y_true' = Append(y_true, Reference(model_id, uri))
                  /\ UNCHANGED <<ver_pc, ver_err>>
             ELSE \* enrolment_models[model_id] of a model never enrolled
                  /\ ver_pc' = "error"
                  /\ ver_err' = "KeyError"
                  /\ UNCHANGED <<y_pred, y_true>>
    /\ UNCHANGED <<internal, enrolment_models, enrolment_khashes, ver_metrics>>

\* Lines 616-621, after at least one trial: the equal error rate of the
\* trials is returned under the name of the representation used.
ReturnMetrics ==
    /\ ver_pc = "trials"
    /\ Len(y_pred) >= 1
    /\ ver_metrics' = {IF internal THEN "EER.internal" ELSE "EER.final"}
    /\ ver_pc' = "done"
    /\ UNCHANGED <<ver_err, internal, enrolment_models, enrolment_khashes,
                   trial_models, y_true, y_pred, applied, used>>

NextVerification ==
    \/ \E b \in BOOLEAN : InitEmbedding(b)
          /\ UNCHANGED <<dataVars, applyVars, dirVars, valVars, loopVars, domVars>>
    \/ \E m \in ModelIds, u \in Uris, sp \in Spans : Enrol(m, u, sp, MaxEnrolments)
          /\ UNCHANGED <<dataVars, applyVars, dirVars, valVars, loopVars, domVars>>
    \/ StartTrials /\ UNCHANGED <<dataVars, applyVars, dirVars, valVars, loopVars, domVars>>
    \/ \E m \in ModelIds, u \in Uris, sp \in Spans : Trial(m, u, sp, MaxTrials)
          /\ UNCHANGED <<dataVars, applyVars, dirVars, valVars, loopVars, domVars>>
    \/ ReturnMetrics /\ UNCHANGED <<dataVars, applyVars, dirVars, valVars, loopVars, domVars>>

----------------------------------------------------------------------------
(* Specifications *)

----------------------------------------------------------------------------
(* `for subset in [...]` of data (lines 317-332) and apply (lines 711-733) *)

\* Most files a subset of the protocol yields, and most appends of the build
\* of one subset's store.
MaxProtocolFiles == 2
MaxLoopAppends == 3

\* Lines 317 and 713.
DataSubsets == <<"train", "development", "test">>
ApplySubsets == <<"development", "test", "train">>

\* What getattr(protocol, subset)() gives: iterating a subset the protocol
\* does not support raises NotImplementedError, a supported one yields its
\* files (here their unique identifiers), possibly none.
ProtocolSubsets ==
    {[supported |-> FALSE, files |-> <<>>]}
        \cup {[supported |-> TRUE, files |-> q] :
                 q \in UNION {[1..n -> Uris] : n \in 0..MaxProtocolFiles}}

\* The loop is about to take its first subset.
LoopStart ==
    /\ protocol \in [{"train", "development", "test"} -> ProtocolSubsets]
    /\ loop_pc = "subset"
    /\ loop_err = ""
    /\ subset = 1
    /\ stores = {}
    /\ file_pos = 0
    /\ processed_uris = {}
    /\ dumped = <<>>

\* The state of the loop once the subset at hand is done with.
AfterSubset == IF subset = 3 THEN "returned" ELSE "subset"

\* data, lines 319-350, for the subset at hand: NotImplementedError is caught
\* and the subset skipped; next() of a generator that yields no file raises
\* StopIteration, which is not caught; else the store file is created.  X,
\* being a local of data, stays bound to the dataset of an earlier subset.
DataTrySubset ==
    /\ loop_pc = "subset"
    /\ LET name == DataSubsets[subset]
       IN IF ~protocol[name].supported
          THEN /\ loop_pc' = AfterSubset
               /\ subset' = subset + 1
               /\ UNCHANGED <<loop_err, stores, dataVars>>
          ELSE IF Len(protocol[name].files) = 0
          THEN /\ loop_pc' = "error"
               /\ loop_err' = "StopIteration"
               /\ UNCHANGED <<subset, stores, dataVars>>
          ELSE /\ loop_pc' = "build"
               /\ stores' = stores \cup {name}
               /\ data_pc' = "loop"
               /\ data_err' = ""
               /\ item' = 0
               /\ seg' = 0
               /\ n_sequences' = InitialCapacity
               /\ i' = 0
               /\ z' = 0
               /\ X' = <<>>
               /\ Y' = [k \in 1..InitialCapacity |-> NoY]
               /\ Z' = [k \in 1..InitialCapacity |-> NoZ]
               /\ attrs' = "absent"
               /\ written' = <<>>
               /\ UNCHANGED <<loop_err, subset, prev_y, X_created>>
    /\ UNCHANGED <<protocol, file_pos, processed_uris, dumped>>

\* The store of the subset at hand is complete (line 421): next subset.
DataEndSubset ==
    /\ loop_pc = "build"
    /\ data_pc = "done"
    /\ loop_pc' = AfterSubset
    /\ subset' = subset + 1
    /\ UNCHANGED <<protocol, loop_err, stores, file_pos, processed_uris, dumped,
                   dataVars>>

\* The exception raised in the build of a store leaves data.
DataRaise ==
    /\ loop_pc = "build"
    /\ data_pc = "error"
    /\ loop_pc' = "error"
    /\ loop_err' = data_err
    /\ UNCHANGED <<protocol, subset, stores, file_pos, processed_uris, dumped,
                   dataVars>>

\* data over the subsets of a protocol: the build of a store takes the files
\* the subset yields, and ends when they are exhausted.
NextDataLoop ==
    \/ DataTrySubset
          /\ UNCHANGED <<applyVars, dirVars, valVars, verVars, domVars>>
    \/ /\ loop_pc = "build"
       /\ NextItem(Len(protocol[DataSubsets[subset]].files))
       /\ UNCHANGED <<applyVars, dirVars, valVars, verVars, loopVars, domVars>>
    \/ /\ loop_pc = "build"
       /\ \E y \in Labels : AppendSequence(y, MaxLoopAppends)
       /\ UNCHANGED <<applyVars, dirVars, valVars, verVars, loopVars, domVars>>
    \/ /\ loop_pc = "build"
       /\ item = Len(protocol[DataSubsets[subset]].files)
       /\ Finalize
       /\ UNCHANGED <<applyVars, dirVars, valVars, verVars, loopVars, domVars>>
    \/ DataEndSubset
          /\ UNCHANGED <<applyVars, dirVars, valVars, verVars, domVars>>
    \/ DataRaise
          /\ UNCHANGED <<applyVars, dirVars, valVars, verVars, domVars>>

\* apply, lines 715-721, for the subset at hand.
ApplyTrySubset ==
    /\ loop_pc = "subset"
    /\ LET name == ApplySubsets[subset]
       IN IF ~protocol[name].supported
          THEN /\ loop_pc' = AfterSubset
               /\ subset' = subset + 1
               /\ UNCHANGED loop_err
          ELSE IF Len(protocol[name].files) = 0
          THEN /\ loop_pc' = "error"
               /\ loop_err' = "StopIteration"
               /\ UNCHANGED subset
          ELSE /\ loop_pc' = "files"
               /\ UNCHANGED <<loop_err, subset>>
    /\ file_pos' = 0
    /\ UNCHANGED <<protocol, stores, processed_uris, dumped>>

\* Whether a file is passed over because of processed_uris (line 727).
AlreadyProcessed(uri, processed) == uri \in processed

\* One iteration of `for current_file in file_generator` (lines 723-733).
ApplyFile ==
    /\ loop_pc = "files"
    /\ file_pos < Len(protocol[ApplySubsets[subset]].files)
    /\ LET uri == protocol[ApplySubsets[subset]].files[file_pos + 1]
       IN IF AlreadyProcessed(uri, processed_uris)
          THEN UNCHANGED <<processed_uris, dumped>>
          ELSE /\ dumped' = Append(dumped, uri)
               /\ processed_uris' = processed_uris \cup {uri}
    /\ file_pos' = file_pos + 1
    /\ UNCHANGED <<protocol, loop_pc, loop_err, subset, stores>>

\* The file generator of the subset at hand is exhausted: next subset.
ApplyEndSubset ==
    /\ loop_pc = "files"
    /\ file_pos = Len(protocol[ApplySubsets[subset]].files)
    /\ loop_pc' = AfterSubset
    /\ subset' = subset + 1
    /\ UNCHANGED <<protocol, loop_err, stores, file_pos, processed_uris, dumped>>

NextApplyLoop ==
    \/ ApplyTrySubset
          /\ UNCHANGED <<dataVars, applyVars, dirVars, valVars, verVars, domVars>>
    \/ ApplyFile
          /\ UNCHANGED <<dataVars, applyVars, dirVars, valVars, verVars, domVars>>
    \/ ApplyEndSubset
          /\ UNCHANGED <<dataVars, applyVars, dirVars, valVars, verVars, domVars>>

\* No subset loop is running.
LoopIdle ==
    /\ protocol = <<>>
    /\ loop_pc = "idle"
    /\ loop_err = ""
    /\ subset = 0
    /\ stores = {}
    /\ file_pos = 0
    /\ processed_uris = {}
    /\ dumped = <<>>

----------------------------------------------------------------------------
(* domain_classification.py: DomainClassification.validation (lines       *)
(* 132-164), prepare_data (109-123) and Dataset.__iter__ (56-87)            *)

\* Most files given to validation, and most frames of the scores of a file.
MaxValFiles == 2
MaxFrames == 2
\* Most files of the task, and most annotated segments of a file.
MaxTaskFiles == 2
MaxSegments == 2
\* hparams.duration, in the unit of the segment boundaries.
ChunkDuration == 2

\* self.classes: the sorted domains (line 107).
Classes == <<"d1", "d2">>
\* list.index (lines 118 and 155).
IndexOf(q, v) == (CHOOSE k \in 1..Len(q) : q[k] = v /\ \A j \in 1..(k - 1) : q[j] # v) - 1

\* The scores of one frame, one per class (in tenths).
FrameScores == {<<1, 0>>, <<0, 1>>, <<1, 1>>}
\* file["scores"]: the scores of 1 to MaxFrames frames.
Scores == UNION {[1..n -> FrameScores] : n \in 1..MaxFrames}

\* np.argmax along the classes (line 152): the first index of the maximum.
ArgMaxLast(frame) ==
    (CHOOSE c \in 1..Len(frame) :
        /\ \A d \in 1..Len(frame) : frame[d] <= frame[c]
        /\ \A d \in (c + 1)..Len(frame) : frame[d] < frame[c]) - 1
ArgMax(frame) ==
    (CHOOSE c \in 1..Len(frame) :
        /\ \A d \in 1..Len(frame) : frame[d] <= frame[c]
        /\ \A d \in 1..(c - 1) : frame[d] < frame[c]) - 1

\* Counter(q) (line 153): the distinct elements of q in the order of their
\* first occurrence, each with its number of occurrences.
RECURSIVE CounterOf(_)
CounterOf(q) ==
    IF Len(q) = 0 THEN <<>>
    ELSE LET before == CounterOf(SubSeq(q, 1, Len(q) - 1))
             e      == q[Len(q)]
         IN IF \E a \in 1..Len(before) : before[a][1] = e
            THEN [a \in 1..Len(before) |->
                     IF before[a][1] = e THEN <<e, before[a][2] + 1>>
                                         ELSE before[a]]
            ELSE Append(before, <<e, 1>>)

\* Counter(q).most_common(1)[0][0] (line 153): the first of the elements of
\* the counter that have the largest count.
MostCommon(q) ==
    LET c == CounterOf(q)
        a == CHOOSE b \in 1..Len(c) :
                 /\ \A d \in 1..Len(c) : c[d][2] <= c[b][2]
                 /\ \A d \in 1..(b - 1) : c[d][2] < c[b][2]
    IN c[a][1]

\* np.mean(np.array(t) == np.array(p)) (line 158) as the pair <<number of
\* equal entries, number of entries>>; no entry gives nan, written <<0, 0>>.
Accuracy(t, p) ==
    <<Cardinality({k \in 1..Len(t) : t[k] = p[k]}), Len(t)>>

NoRecord == [metric |-> "", minimize |-> TRUE, value |-> <<0, 1>>]
NoDraw == [file |-> 0, segment |-> <<0, 0>>, chunk |-> <<0, 0>>]

\* validation is called (lines 146-149).
ValidationStart ==
    /\ dom_pc = "validation"
    /\ dom_err = ""
    /\ val_files = <<>>
    /\ y_true_file = <<>>
    /\ y_pred_file = <<>>
    /\ returned = NoRecord
    /\ task_files = <<>>
    /\ drawn = NoDraw

\* One iteration of `for file in files` (lines 151-156) for a file of the
\* given scores and domain.
ValidateFile(scores, domain, maxFiles) ==
    /\ dom_pc = "validation"
    /\ Len(val_files) < maxFiles
    /\ LET frame_pred == [t \in 1..Len(scores) |-> ArgMax(scores[t])]
       IN y_pred_file' = Append(y_pred_file, MostCommon(frame_pred))
    /\ y_true_file' = Append(y_true_file, IndexOf(Classes, domain))
    /\ val_files' = Append(val_files, [scores |-> scores, domain |-> domain])
    /\ UNCHANGED <<dom_pc, dom_err, returned, task_files, drawn>>

\* Lines 158-164, after the last file.
ReturnAccuracy ==
    /\ dom_pc = "validation"
    /\ returned' = [metric   |-> "accuracy",
                    minimize |-> FALSE,
                    value    |-> Accuracy(y_true_file, y_pred_file)]
    /\ dom_pc' = "returned"
    /\ UNCHANGED <<dom_err, val_files, y_true_file, y_pred_file, task_files, drawn>>

NextValidation ==
    \/ \E sc \in Scores, d \in {Classes[k] : k \in 1..Len(Classes)} :
          ValidateFile(sc, d, MaxValFiles)
             /\ UNCHANGED <<dataVars, applyVars, dirVars, valVars, verVars, loopVars>>
    \/ ReturnAccuracy
          /\ UNCHANGED <<dataVars, applyVars, dirVars, valVars, verVars, loopVars>>

\* Segments (start, end) a file may be annotated with.
Segments == {<<0, 1>>, <<2, 5>>, <<6, 11>>, <<12, 14>>}
SegDuration(sg) == sg[2] - sg[1]

\* file["annotated"]: 1 to MaxSegments of the segments, in the order of time.
Annotated ==
    {q \in UNION {[1..n -> Segments] : n \in 1..MaxSegments} :
        \A j, k \in 1..Len(q) : j < k => q[j][2] < q[k][1]}

\* sum(...) of a sequence of numbers.
RECURSIVE Sum(_)
Sum(q) == IF Len(q) = 0 THEN 0 ELSE q[1] + Sum(Tail(q))

\* Lines 112-116: the duration of the annotated segments longer than
\* hparams.duration.
DataloaderDuration(annotated) ==
    Sum([k \in 1..Len(annotated) |->
            IF SegDuration(annotated[k]) > ChunkDuration
            THEN SegDuration(annotated[k]) ELSE 0])

\* The files of the task, after prepare_data (lines 111-118).
TaskFiles ==
    UNION {[1..n -> {[annotated |-> a,
                      dataloader_duration |-> DataloaderDuration(a)] :
                         a \in Annotated}] : n \in 1..MaxTaskFiles}

\* The training dataset is about to be iterated.
IterStart ==
    /\ dom_pc = "iter"
    /\ dom_err = ""
    /\ val_files = <<>>
    /\ y_true_file = <<>>
    /\ y_pred_file = <<>>
    /\ returned = NoRecord
    /\ task_files \in TaskFiles
    /\ drawn = NoDraw

\* random.choices(population, weights, k=1): an element of positive weight;
\* the positions that may come out.
Choices(weights) == {k \in 1..Len(weights) : weights[k] > 0}

\* random.uniform(a, b) is a + (b - a) * random(): a value between a and b,
\* whichever is the larger; here the integers between them.
Uniform(a, b) == IF a <= b THEN a..b ELSE b..a

\* One iteration of `while True` (lines 58-87).  When no file has a segment
\* longer than hparams.duration all weights are 0 and random.choices raises.
YieldChunk ==
    /\ dom_pc = "iter"
    /\ LET weights == [k \in 1..Len(task_files) |->
                          task_files[k].dataloader_duration]
       IN IF Choices(weights) = {}
          THEN /\ dom_pc' = "error"
               /\ dom_err' = "ValueError"
               /\ UNCHANGED drawn
          ELSE \E f \in Choices(weights) :
                 LET annotated == task_files[f].annotated
                     durations == [k \in 1..Len(annotated) |->
                                      SegDuration(annotated[k])]
                 IN \E sg \in Choices(durations) :
                       \E start_time \in Uniform(annotated[sg][1],
                                                  annotated[sg][2] - ChunkDuration) :
                          /\ drawn' = [file    |-> f,
                                       segment |-> annotated[sg],
                                       chunk   |-> <<start_time,
                                                     start_time + ChunkDuration>>]
                          /\ UNCHANGED <<dom_pc, dom_err>>
    /\ UNCHANGED <<val_files, y_true_file, y_pred_file, returned, task_files>>

NextIter ==
    YieldChunk /\ UNCHANGED <<dataVars, applyVars, dirVars, valVars, verVars, loopVars>>

\* Neither a validation nor a training dataset of the domain classification.
DomIdle ==
    /\ dom_pc = "idle"
    /\ dom_err = ""
    /\ val_files = <<>>
    /\ y_true_file = <<>>
    /\ y_pred_file = <<>>
    /\ returned = NoRecord
    /\ task_files = <<>>
    /\ drawn = NoDraw

InitData == DataStart(InitialCapacity) /\ ApplyIdle /\ DirIdle /\ ValIdle /\ VerIdle /\ LoopIdle /\ DomIdle
SpecData == InitData /\ [][NextData]_vars

\* The same build from any initial capacity up to InitialCapacity.
InitGrowth ==
    (\E c \in 1..InitialCapacity : DataStart(c)) /\ ApplyIdle /\ DirIdle /\ ValIdle /\ VerIdle /\ LoopIdle /\ DomIdle
SpecGrowth == InitGrowth /\ [][NextData]_vars

InitFiles == InitData
SpecFiles == InitFiles /\ [][NextFiles]_vars

InitDataLoop ==
    LoopStart /\ DataIdle /\ ApplyIdle /\ DirIdle /\ ValIdle /\ VerIdle /\ DomIdle
SpecDataLoop == InitDataLoop /\ [][NextDataLoop]_vars

InitApplyLoop ==
    LoopStart /\ DataIdle /\ ApplyIdle /\ DirIdle /\ ValIdle /\ VerIdle /\ DomIdle
SpecApplyLoop == InitApplyLoop /\ [][NextApplyLoop]_vars

InitValidation ==
    ValidationStart /\ DataIdle /\ ApplyIdle /\ DirIdle /\ ValIdle /\ VerIdle /\ LoopIdle
SpecValidation == InitValidation /\ [][NextValidation]_vars

InitIter ==
    IterStart /\ DataIdle /\ ApplyIdle /\ DirIdle /\ ValIdle /\ VerIdle /\ LoopIdle
SpecIter == InitIter /\ [][NextIter]_vars

InitApply == ApplyStart /\ DataIdle /\ DirIdle /\ ValIdle /\ VerIdle /\ LoopIdle /\ DomIdle
SpecApply == InitApply /\ [][NextApply]_vars

InitDirectory == DirStart /\ DataIdle /\ ApplyIdle /\ ValIdle /\ VerIdle /\ LoopIdle /\ DomIdle
SpecDirectory == InitDirectory /\ [][NextDirectory]_vars

InitSampler == SamplerStart /\ DataIdle /\ ApplyIdle /\ DirIdle /\ VerIdle /\ LoopIdle /\ DomIdle
SpecSampler == InitSampler /\ [][NextSampler]_vars

InitBatch == BatchStart /\ DataIdle /\ ApplyIdle /\ DirIdle /\ VerIdle /\ LoopIdle /\ DomIdle
SpecBatch == InitBatch /\ [][NextBatch]_vars

InitVerification == VerificationStart /\ DataIdle /\ ApplyIdle /\ DirIdle /\ ValIdle /\ LoopIdle /\ DomIdle
SpecVerification == InitVerification /\ [][NextVerification]_vars

----------------------------------------------------------------------------
(* Claims about the sequence store build *)

Max(a, b) == IF a >= b THEN a ELSE b
Min(a, b) == IF a <= b THEN a ELSE b

\* C1 (as claimed): after appending N >= 1 sequences and finalizing, the
\* logical length of each of X, Y and Z is exactly N.
C1_LengthIsCount ==
    data_pc = "done" => (Len(X) = i /\ Len(Y) = i /\ Len(Z) = i)

\* Number of appended entries the datasets still hold.
Stored == Min(i, Len(Z))

\* C3: the first append gets group id 0, the stored Z is non-decreasing, and
\* Z[k] = Z[k-1] + 1 exactly when label k differs from label k-1, otherwise
\* Z[k] = Z[k-1].
C3_GroupIds ==
    /\ Stored >= 1 => Z[1] = 0
    /\ \A k \in 2..Stored :
          /\ Z[k] >= Z[k-1]
          /\ (written[k][2] # written[k-1][2]) <=> (Z[k] = Z[k-1] + 1)
          /\ (written[k][2] = written[k-1][2]) <=> (Z[k] = Z[k-1])

\* C3 witness: a finalized store holding a label change and a label repeat.
C3_Witness ==
    /\ data_pc = "done"
    /\ \E k \in 2..Len(Z) : Z[k] = Z[k-1] + 1
    /\ \E k \in 2..Len(Z) : Z[k] = Z[k-1] /\ Z[k] >= 1

\* C4 (as claimed): after finalize every entry (x, label, group id) written at
\* index k is read back unchanged at index k; none is lost by a resize or by
\* the final truncation.
C4_ReadBack ==
    data_pc = "done" =>
        \A k \in 1..Len(written) :
            /\ k <= Len(X) /\ k <= Len(Y) /\ k <= Len(Z)
            /\ X[k] = written[k][1]
            /\ Y[k] = written[k][2]
            /\ Z[k] = written[k][3]

\* C6: once X exists (after every completed append, every resize and the
\* final truncation) X, Y and Z have the same length.
C6_ParallelArrays ==
    X_created => (Len(X) = Len(Y) /\ Len(Y) = Len(Z))

\* C6 witness: a finalized store whose datasets were resized on the way.
C6_Witness ==
    /\ data_pc = "done"
    /\ n_sequences > InitialCapacity
    /\ Len(X) > InitialCapacity

\* A step that runs the body of the segment loop (completed or raising).
AppendAttempt == data_pc = "loop" /\ seg' = seg + 1

C12_EmptyStore ==
    (i = 0 /\ data_pc # "loop") =>
        /\ data_pc = "error"
        /\ data_err # ""
        /\ attrs = "absent"

\* C12 witness: the build of a store has failed after at least one file and
\* no append.
C12_Witness ==
    /\ data_pc = "error"
    /\ data_err = "UnboundLocalError"
    /\ item >= 1
    /\ i = 0
    /\ attrs = "absent"

\* C17 (as claimed): the entries that share a group id are cut from a single
\* labeled region of a single file, so that two sequences cut from different
\* files never share a group id.  An entry <<x, y, z>> of the history has
\* x = Features(file, segment).
C17_GroupInOneFile ==
    \A j, k \in 1..Len(written) :
        written[j][3] = written[k][3] => written[j][1][1] = written[k][1][1]

----------------------------------------------------------------------------
(* Claims about the choice of the best epoch *)

\* The lines kept when duplicate epochs are dropped keeping the first one.
FirstKept(rows) ==
    {k \in 1..Len(rows) : \A j \in 1..(k - 1) : rows[j][1] # rows[k][1]}

\* The log of the spec's example: (1, 0.3), (2, 0.1), (2, 0.5), (3, 0.2).
ExampleLog == <<<<1, 3>>, <<2, 1>>, <<2, 5>>, <<3, 2>>>>

\* C2 (as claimed): duplicate epochs are deduplicated keeping the first
\* occurrence and the selected epoch is one with the minimum value among the
\* kept records; for the example log the selected epoch is 2.
C2_FirstOccurrence ==
    apply_pc = "model_loaded" =>
        /\ \E k \in FirstKept(validate_txt) :
              /\ validate_txt[k][1] = best_epoch
              /\ \A j \in FirstKept(validate_txt) :
                    validate_txt[k][2] <= validate_txt[j][2]
        /\ validate_txt = ExampleLog => best_epoch = 2

C13_EmptyLog ==
    (validate_txt = <<>> /\ apply_pc # "start") =>
        /\ apply_pc = "error"
        /\ apply_err # ""
        /\ best_epoch = 0

\* C13 witness: apply has failed on an empty log.
C13_Witness ==
    /\ validate_txt = <<>>
    /\ apply_pc = "error"
    /\ apply_err = "ValueError"

----------------------------------------------------------------------------
(* Claims about the directory name *)

\* C5 (as claimed): for every combination of duration, optional min_duration,
\* optional step and heterogeneous flag, decoding the encoded name returns
\* exactly the parameters; (3.2, step 0.8) encodes as "3.2+0.8", which decodes
\* to (3.2, None, 0.8, False), and (5, heterogeneous) encodes as "5x".
C5_RoundTrip ==
    /\ dir_pc = "decoded" =>
          /\ decoded.raised = ""
          /\ decoded.duration = params.duration
          /\ decoded.min_duration = params.min_duration
          /\ decoded.step = params.step
          /\ decoded.heterogeneous = params.heterogeneous
    /\ (dir_pc # "params" /\ params = [duration |-> Normalize(32, -1),
                                       min_duration |-> None,
                                       step |-> Normalize(8, -1),
                                       heterogeneous |-> FALSE])
           => DIRECTORY = <<"3", ".", "2", "+", "0", ".", "8">>
    /\ (dir_pc # "params" /\ params = [duration |-> Normalize(5, 0),
                                       min_duration |-> None,
                                       step |-> None,
                                       heterogeneous |-> TRUE])
           => DIRECTORY = <<"5", "x">>

----------------------------------------------------------------------------
(* Claims about the balanced sample *)

\* The label of the first member of the group with key g in the open store.
FirstLabel(g) ==
    LET members == {k \in 1..Len(h5_z) : h5_z[k] = g}
    IN h5_y[CHOOSE k \in members : \A j \in members : k <= j]

StoreGroups == {h5_z[k] : k \in 1..Len(h5_z)}
StoreLabels == {FirstLabel(g) : g \in StoreGroups}
GroupsOf(l) == {g \in StoreGroups : FirstLabel(g) = l}

\* C8: for every class label the number of selected groups is min(10, number
\* of groups of that class); no group is selected twice; each selected
\* group's class index is that of the label of the group's first member.
C8_BalancedSample ==
    val_pc = "sampled" =>
        LET labels == StoreLabels
            chosen == [j \in 1..Len(acc.I) |->
                          IF acc.I[j] \in StoreGroups
                          THEN FirstLabel(acc.I[j]) ELSE ""]
        IN /\ \A l \in labels :
                 Cardinality({j \in 1..Len(acc.I) : chosen[j] = l})
                     = Min(10, Cardinality(GroupsOf(l)))
           /\ \A j, k \in 1..Len(acc.I) : acc.I[j] = acc.I[k] => j = k
           /\ \A j \in 1..Len(acc.I) : acc.I[j] \in StoreGroups
           /\ Len(validation_data.y) = Len(acc.I)
           /\ \A j \in 1..Len(acc.I) :
                 validation_data.y[j]
                     = Cardinality({l \in labels : Rank(l) < Rank(chosen[j])})

\* C8 witness: a sample of a store with a class of more than 10 groups and a
\* class of fewer than 10.
C8_Witness ==
    /\ val_pc = "sampled"
    /\ \E l \in StoreLabels : Cardinality(GroupsOf(l)) > 10
    /\ \E l \in StoreLabels : Cardinality(GroupsOf(l)) < 10

----------------------------------------------------------------------------
(* Claims about the group-level inference of the default track *)

\* C10 (as claimed): for every length of XX the batch boundaries partition XX,
\* so that every sequence is embedded exactly once and the batch outputs are
\* concatenated in input order; the output has sum(n) rows and each group's
\* slice, given by the cumulative sums of n, holds exactly that group's
\* sequences.
C10_BatchesPartition ==
    (val_err = "ValueError" \/ "EER.Xseq" \in metrics) =>
        LET XX  == validation_data.XX
            n   == validation_data.n
            idx == Indices(n)
        IN /\ val_pc = "validated"
           /\ Len(fX) = Len(XX)
           /\ Len(fX) = idx[Len(idx)]
           /\ \A r \in 1..Len(XX) : fX[r] = Embedding(XX[r])
           /\ Len(group_fX) = Len(n)
           /\ \A g \in 1..Len(n) :
                 group_fX[g] = [k \in 1..n[g] |-> Embedding(XX[idx[g] + k])]

\* C15 (as claimed, default track): whether or not the model has an internal
\* layer, _validate_epoch_default returns; EER.1seq is always recorded, and
\* EER.Xseq is recorded if and only if the model has an internal layer.
C15_InternalOptional ==
    [][\A b \in BOOLEAN :
          ValidateEpochDefault(b) =>
              /\ val_pc' = "validated"
              /\ "EER.1seq" \in metrics'
              /\ ("EER.Xseq" \in metrics') <=> b]_vars

----------------------------------------------------------------------------
(* Claims about the verification track *)

\* C16 (as claimed): for every trial, the vector compared with the enrolment
\* model is the averaged embedding of the trial's own (file, try_with span),
\* whether computed, taken from the trial cache or taken from an enrolment.
C16_OwnVector ==
    \A j \in 1..Len(used) :
        used[j].model = MeanVector(used[j].uri, used[j].span)

\* Number of calls of the embedding extractor the trial loop made for a
\* (file, span).
TrialCalls(uri, span) ==
    Cardinality({c \in 1..Len(applied) :
                    /\ applied[c].phase = "trial"
                    /\ applied[c].uri = uri
                    /\ applied[c].span = span})

----------------------------------------------------------------------------
(* Claims about the loops over the subsets *)

\* The subsets that are supported and yield at least one file.
WithFiles ==
    {name \in DOMAIN protocol :
        protocol[name].supported /\ Len(protocol[name].files) > 0}

\* C14 (as claimed): a subset that is not supported or yields no files is
\* skipped without raising and no store is created for it, and every
\* remaining subset is still processed: StopIteration never leaves the loop,
\* only subsets with files have a store, and when the loop is left without a
\* failed build every subset with files has one.
C14_SubsetSkipped ==
    /\ loop_err # "StopIteration"
    /\ stores \subseteq WithFiles
    /\ loop_pc = "returned" => stores = WithFiles

\* The number of times a file was dumped.
Dumps(uri) == Cardinality({k \in 1..Len(dumped) : dumped[k] = uri})

\* The files of the subsets that are supported.
SupportedUris ==
    UNION {{protocol[name].files[k] : k \in 1..Len(protocol[name].files)} :
             name \in {n \in DOMAIN protocol : protocol[n].supported}}

\* C20 (as claimed): over the subsets, embeddings are dumped at most once per
\* unique identifier, and once apply is over exactly once for every
\* identifier that occurs in a supported subset.
C20_DumpedOnce ==
    /\ \A uri \in Uris : Dumps(uri) <= 1
    /\ loop_pc \in {"returned", "error"} =>
           \A uri \in SupportedUris : Dumps(uri) = 1

----------------------------------------------------------------------------
(* Claims about the domain classification *)

\* The number of frames of the scores whose largest score is that of class c
\* (the lowest such class when several share the largest score).
Frequency(c, scores) ==
    Cardinality({t \in 1..Len(scores) :
                    /\ \A d \in 1..Len(scores[t]) : scores[t][d] <= scores[t][c + 1]
                    /\ \A d \in 1..c : scores[t][d] < scores[t][c + 1]})

\* The classes no class is more frequent than.
MostFrequent(scores) ==
    {c \in 0..(Len(Classes) - 1) :
        \A d \in 0..(Len(Classes) - 1) :
            Frequency(d, scores) <= Frequency(c, scores)}

C19_ChunkInSegment ==
    drawn # NoDraw =>
        /\ drawn.chunk[2] - drawn.chunk[1] = ChunkDuration
        /\ drawn.segment[1] <= drawn.chunk[1]
        /\ drawn.chunk[2] <= drawn.segment[2]
        /\ SegDuration(drawn.segment) > ChunkDuration

====
